---- MODULE Spec2Model ----
(***************************************************************************)
(* Model of the WhatsApp-to-MPesa microstore backend (src/main.py,         *)
(* src/schemas.py).  The state is the content of the five MongoDB          *)
(* collections the handlers touch; every HTTP handler is an action.        *)
(*                                                                         *)
(* Three specifications are defined over the same variables:               *)
(*   Spec          signup, create_store and create_product, each handler   *)
(*                 running to completion before the next one starts;       *)
(*   SpecCheckout  checkout requests of several clients, one database      *)
(*                 operation per step (insert, update, notification);      *)
(*   SpecRace      signup plus create_store requests of several clients,   *)
(*                 one database operation per step.                        *)
(* checkout reads and writes only the order and notification collections   *)
(* and no other handler touches those, so it is explored on its own.       *)
(*                                                                         *)
(* Encodings:                                                              *)
(*   - a collection is the sequence of its documents in insertion order;   *)
(*     the ObjectId of a document is its position, rendered as a number    *)
(*     >= 1; the number 0 stands for a string that is no ObjectId;         *)
(*   - a str is a TLA+ string, except slugs, which are sequences of        *)
(*     one-character strings so that str.lower() is computed;              *)
(*   - Python None is the value None;                                      *)
(*   - a float price is an integer number of eighths (0.125), which are    *)
(*     exact binary floats: products and sums of them are exact too;       *)
(*     a total returned by round(x, 2) is an integer number of             *)
(*     hundredths.                                                         *)
(***************************************************************************)
EXTENDS Integers, Sequences, FiniteSets, TLC

VARIABLES seller, store, product, order, notification, last, req

vars == <<seller, store, product, order, notification, last, req>>

----------------------------------------------------------------------------
(* Bounds of the exploration *)

MaxSellers == 1
MaxStores == 2
MaxProducts == 1
MaxOrders == 2

----------------------------------------------------------------------------
(* Values *)

None == "None"

Phones == {"254700000000"}
OwnerWhatsapps == {None, "", "254722222222"}
StoreWhatsapps == {None, "", "254733333333"}

Slugs == {<<"a", "1">>, <<"A", "1">>, <<"b">>}
RaceSlugs == {<<"a", "1">>, <<"A", "1">>}
RaceWhatsapps == {None}
CheckoutSlugs == {<<"A", "1">>}
CustomerPhones == {"254711111111"}

\* prices in eighths: -1.0 and 20.0
ProductPrices == {-8, 160}

\* an order line: price in eighths, quantity
Item(price, quantity) == [price |-> price, quantity |-> quantity]

\* the item lists the checkout requests carry
ItemLists ==
  { <<>>,
    <<Item(1, 1)>>,
    <<Item(1, 1), Item(1, 1)>>,
    <<Item(3, 1)>>,
    <<Item(1, 2), Item(3, 1)>>,
    <<Item(160, 3)>>,
    <<Item(-1, 1)>>,
    <<Item(1, 0)>> }

\* the two requests in flight at the same time
Clients == {1, 2}

----------------------------------------------------------------------------
(* Python built-ins used by the handlers *)

\* str.lower() on one character
LowerChar(c) ==
  CASE c = "A" -> "a"
    [] c = "B" -> "b"
    [] OTHER -> c

\* str.lower()
Lower(s) == [i \in DOMAIN s |-> LowerChar(s[i])]

\* truth value of an Optional[str]
Truthy(x) == x # None /\ x # ""

\* x or y
Or(x, y) == IF Truthy(x) THEN x ELSE y

----------------------------------------------------------------------------
(* database module (imported by main.py, not part of the sources) *)

\* create_document(collection_name, data): inserts, the new id is returned
create_document(coll, doc) == Append(coll, doc)

NewId(coll) == Len(coll) + 1

\* collection.find_one({"_id": oid}) is not None
Found(coll, oid) == oid \in DOMAIN coll

\* collection.find_one({"_id": oid}), when it is not None
FindById(coll, oid) == coll[oid]

\* collection.find_one({"slug": slug}) is not None
SlugExists(slug) == \E i \in DOMAIN store : store[i].slug = slug

----------------------------------------------------------------------------
(* Helpers of main.py *)

\* to_object_id raises HTTP 400 unless the string is an ObjectId
IsObjectId(id_str) == id_str >= 1

\* ensure_unique_slug raises HTTP 400 iff this holds
ensure_unique_slug_raises(slug) == SlugExists(slug)

\* the owner's phone tried before the owner's whatsapp_number
EffectiveWhatsappPhoneFirst(payload_wa, owner) ==
  Or(Or(payload_wa, owner.phone), owner.whatsapp_number)

\* payload.whatsapp_number or owner.get("whatsapp_number") or owner.get("phone")
EffectiveWhatsapp(payload_wa, owner) ==
  Or(Or(payload_wa, owner.whatsapp_number), owner.phone)

\* last: the latest request and its HTTP status (whatsapp_number is recorded
\* for the stores that were created)
NoLast == [op |-> "none", code |-> 0, owner_id |-> 0, slug |-> <<>>,
           wa |-> None, price |-> 0]

----------------------------------------------------------------------------
(* Handlers, each running to completion *)

\* POST /api/signup
Signup(phone, wa) ==
  /\ Len(seller) < MaxSellers
  /\ seller' = create_document(seller, [phone |-> phone, whatsapp_number |-> wa])
  /\ last' = [NoLast EXCEPT !.op = "signup", !.code = 200]
  /\ UNCHANGED <<store, product, order, notification, req>>

\* the owner resolved before the slug is checked
CreateStoreCodeOwnerFirst(owner_id, slug) ==
  IF ~IsObjectId(owner_id) THEN 400
  ELSE IF ~Found(seller, owner_id) THEN 404
  ELSE IF ensure_unique_slug_raises(slug) THEN 400
  ELSE 200

\* The HTTP status create_store answers with, in the order the code decides it
CreateStoreCode(owner_id, slug) ==
  IF ensure_unique_slug_raises(slug) THEN 400
  ELSE IF ~IsObjectId(owner_id) THEN 400
  ELSE IF ~Found(seller, owner_id) THEN 404
  ELSE 200

StoreDoc(owner_id, slug, wa) ==
  [owner_id |-> owner_id,
   slug |-> Lower(slug),
   whatsapp_number |-> EffectiveWhatsapp(wa, FindById(seller, owner_id))]

\* POST /api/store
CreateStore(owner_id, slug, wa) ==
  LET code == CreateStoreCode(owner_id, slug) IN
  /\ code = 200 => Len(store) < MaxStores
  /\ store' = IF code = 200
              THEN create_document(store, StoreDoc(owner_id, slug, wa))
              ELSE store
  /\ last' = [NoLast EXCEPT !.op = "create_store", !.code = code,
                            !.owner_id = owner_id, !.slug = slug,
                            !.wa = IF code = 200 THEN wa ELSE None]
  /\ UNCHANGED <<seller, product, order, notification, req>>

\* Product(...) raises a validation error unless price >= 0 (Field(..., ge=0))
ProductValid(price) == price >= 0

CreateProductCode(store_slug, price) ==
  IF ~SlugExists(Lower(store_slug)) THEN 404
  ELSE IF ~ProductValid(price) THEN 500
  ELSE 200

\* the slug stored as it was sent
ProductDocRawSlug(store_slug, price) ==
  [store_slug |-> store_slug, price |-> price, is_active |-> TRUE]

ProductDoc(store_slug, price) ==
  [store_slug |-> Lower(store_slug), price |-> price, is_active |-> TRUE]

\* POST /api/products
CreateProduct(store_slug, price) ==
  LET code == CreateProductCode(store_slug, price) IN
  /\ code = 200 => Len(product) < MaxProducts
  /\ product' = IF code = 200
                THEN create_document(product, ProductDoc(store_slug, price))
                ELSE product
  /\ last' = [NoLast EXCEPT !.op = "create_product", !.code = code,
                            !.slug = store_slug, !.price = price]
  /\ UNCHANGED <<seller, store, order, notification, req>>

----------------------------------------------------------------------------

NoOwner == [phone |-> "", whatsapp_number |-> None]

IdleReq == [pc |-> "idle", code |-> 0, slug |-> <<>>, owner_id |-> 0, wa |-> None,
            owner |-> NoOwner, items |-> <<>>, phone |-> "", total |-> 0,
            order_id |-> 0, sink_failed |-> FALSE]

----------------------------------------------------------------------------
(* checkout, one database operation per step *)

\* After request parsing: OrderItem.quantity is Field(..., ge=1), anything
\* else about the items is accepted
RequestValid(items) == \A i \in DOMAIN items : items[i].quantity >= 1

\* round(x, 2) of the float n/d: the nearest number of hundredths, an exact
\* tie going to the even one
RoundCents(n, d) ==
  LET q == (100 * n) \div d
      r == (100 * n) % d
  IN IF 2 * r < d THEN q
     ELSE IF 2 * r > d THEN q + 1
     ELSE IF q % 2 = 0 THEN q ELSE q + 1

\* the loop "for item in payload.items: total += item.price * item.quantity"
RECURSIVE TotalLoop(_, _, _)
TotalLoop(items, i, total) ==
  IF i > Len(items) THEN total
  ELSE TotalLoop(items, i + 1, total + items[i].price * items[i].quantity)

\* every line rounded, then the sum
RECURSIVE LinesLoop(_, _, _)
LinesLoop(items, i, total) ==
  IF i > Len(items) THEN total
  ELSE LinesLoop(items, i + 1,
                 total + RoundCents(items[i].price * items[i].quantity, 8))

checkout_total_lines(items) == LinesLoop(items, 1, 0)

\* round(total, 2), in hundredths
checkout_total(items) == RoundCents(TotalLoop(items, 1, 0), 8)

\* Order(..., status="pending", mpesa={})
OrderDoc(store_slug, items) ==
  [store_slug |-> Lower(store_slug), items |-> items,
   total |-> checkout_total(items), status |-> "pending", mpesa |-> {}]

\* the update without the mpesa metadata
PaidUpdateStatusOnly(doc) == [doc EXCEPT !.status = "paid"]

\* {"$set": {"status": "paid", "mpesa": {"status": "success"}}}
PaidUpdate(doc) ==
  [doc EXCEPT !.status = "paid", !.mpesa = {<<"status", "success">>}]

\* db["order"].update_one({"_id": ObjectId(order_id)}, ...)
update_one(coll, oid) ==
  [i \in DOMAIN coll |-> IF i = oid THEN PaidUpdate(coll[i]) ELSE coll[i]]

NotificationDoc(r) ==
  [type |-> "whatsapp", store_slug |-> Lower(r.slug), order_id |-> r.order_id,
   count |-> Len(r.items), total |-> checkout_total(r.items), phone |-> r.phone]

\* request parsing, the total and create_document("order", order)
CheckoutInsert(c, store_slug, items, phone) ==
  /\ req[c].pc \in {"idle", "done"}
  /\ IF ~RequestValid(items)
     THEN /\ req' = [req EXCEPT ![c] = [IdleReq EXCEPT !.pc = "done", !.code = 422,
                                          !.slug = store_slug, !.items = items,
                                          !.phone = phone]]
          /\ order' = order
     ELSE /\ Len(order) < MaxOrders
          /\ order' = create_document(order, OrderDoc(store_slug, items))
          /\ req' = [req EXCEPT ![c] = [IdleReq EXCEPT !.pc = "update",
                                          !.slug = store_slug, !.items = items,
                                          !.phone = phone,
                                          !.total = checkout_total(items),
                                          !.order_id = NewId(order)]]
  /\ UNCHANGED <<seller, store, product, notification, last>>

\* the mocked STK push: update_one sets the order paid
CheckoutUpdate(c) ==
  /\ req[c].pc = "update"
  /\ order' = update_one(order, req[c].order_id)
  /\ req' = [req EXCEPT ![c].pc = "notify"]
  /\ UNCHANGED <<seller, store, product, notification, last>>

\* db["notification"].insert_one(...) and the response; sink_ok = FALSE is the
\* insert raising, which the handler does not catch
CheckoutNotify(c, sink_ok) ==
  /\ req[c].pc = "notify"
  /\ IF sink_ok
     THEN /\ notification' = Append(notification, NotificationDoc(req[c]))
          /\ req' = [req EXCEPT ![c].pc = "done", ![c].code = 200]
     ELSE /\ notification' = notification
          /\ req' = [req EXCEPT ![c].pc = "done", ![c].code = 500,
                                ![c].sink_failed = TRUE]
  /\ UNCHANGED <<seller, store, product, order, last>>

----------------------------------------------------------------------------
(* create_store, one database operation per step *)

\* ensure_unique_slug(payload.slug)
StoreCheckSlug(c, owner_id, slug, wa) ==
  /\ req[c].pc \in {"idle", "done"}
  /\ req' = [req EXCEPT ![c] =
               [IdleReq EXCEPT !.slug = slug, !.owner_id = owner_id, !.wa = wa,
                               !.pc = IF ensure_unique_slug_raises(slug)
                                      THEN "done" ELSE "owner",
                               !.code = IF ensure_unique_slug_raises(slug)
                                        THEN 400 ELSE 0]]
  /\ UNCHANGED <<seller, store, product, order, notification, last>>

\* owner = db["seller"].find_one({"_id": to_object_id(payload.owner_id)})
StoreFindOwner(c) ==
  /\ req[c].pc = "owner"
  /\ req' = [req EXCEPT ![c] =
               IF ~IsObjectId(req[c].owner_id)
               THEN [req[c] EXCEPT !.pc = "done", !.code = 400]
               ELSE IF ~Found(seller, req[c].owner_id)
               THEN [req[c] EXCEPT !.pc = "done", !.code = 404]
               ELSE [req[c] EXCEPT !.pc = "insert",
                                   !.owner = FindById(seller, req[c].owner_id)]]
  /\ UNCHANGED <<seller, store, product, order, notification, last>>

\* a store collection with a unique index on slug: the insert fails on a
\* slug that is already stored
StoreInsertUnique(c) ==
  /\ req[c].pc = "insert"
  /\ Len(store) < MaxStores
  /\ IF SlugExists(Lower(req[c].slug))
     THEN /\ store' = store
          /\ req' = [req EXCEPT ![c].pc = "done", ![c].code = 400]
     ELSE /\ store' = create_document(store,
                 [owner_id |-> req[c].owner_id, slug |-> Lower(req[c].slug),
                  whatsapp_number |-> EffectiveWhatsapp(req[c].wa, req[c].owner)])
          /\ req' = [req EXCEPT ![c].pc = "done", ![c].code = 200]
  /\ UNCHANGED <<seller, product, order, notification, last>>

\* store = Store(...); create_document("store", store)
StoreInsert(c) ==
  /\ req[c].pc = "insert"
  /\ Len(store) < MaxStores
  /\ store' = create_document(store,
                 [owner_id |-> req[c].owner_id, slug |-> Lower(req[c].slug),
                  whatsapp_number |-> EffectiveWhatsapp(req[c].wa, req[c].owner)])
  /\ req' = [req EXCEPT ![c].pc = "done", ![c].code = 200]
  /\ UNCHANGED <<seller, product, order, notification, last>>

\* signup is a single insert
SignupStep(phone, wa) ==
  /\ Len(seller) < MaxSellers
  /\ seller' = create_document(seller, [phone |-> phone, whatsapp_number |-> wa])
  /\ UNCHANGED <<store, product, order, notification, last, req>>

----------------------------------------------------------------------------

Init ==
  /\ seller = <<>>
  /\ store = <<>>
  /\ product = <<>>
  /\ order = <<>>
  /\ notification = <<>>
  /\ last = NoLast
  /\ req = [c \in Clients |-> IdleReq]

DoSignup == \E phone \in Phones, wa \in OwnerWhatsapps : Signup(phone, wa)

DoCreateStore ==
  \E owner_id \in 0..(Len(seller) + 1), slug \in Slugs, wa \in StoreWhatsapps :
    CreateStore(owner_id, slug, wa)

DoCreateProduct ==
  \E store_slug \in Slugs, price \in ProductPrices : CreateProduct(store_slug, price)

Next == DoSignup \/ DoCreateStore \/ DoCreateProduct

Spec == Init /\ [][Next]_vars

DoCheckoutInsert ==
  \E c \in Clients, store_slug \in CheckoutSlugs, items \in ItemLists,
     phone \in CustomerPhones : CheckoutInsert(c, store_slug, items, phone)

DoCheckoutUpdate == \E c \in Clients : CheckoutUpdate(c)

DoCheckoutNotify == \E c \in Clients, sink_ok \in BOOLEAN : CheckoutNotify(c, sink_ok)

NextCheckout == DoCheckoutInsert \/ DoCheckoutUpdate \/ DoCheckoutNotify

SpecCheckout == Init /\ [][NextCheckout]_vars

DoSignupStep == \E phone \in Phones, wa \in OwnerWhatsapps : SignupStep(phone, wa)

DoStoreCheckSlug ==
  \E c \in Clients, owner_id \in 0..(Len(seller) + 1), slug \in RaceSlugs,
     wa \in RaceWhatsapps : StoreCheckSlug(c, owner_id, slug, wa)

DoStoreFindOwner == \E c \in Clients : StoreFindOwner(c)

DoStoreInsert == \E c \in Clients : StoreInsert(c)

NextRace == DoSignupStep \/ DoStoreCheckSlug \/ DoStoreFindOwner \/ DoStoreInsert

SpecRace == Init /\ [][NextRace]_vars

----------------------------------------------------------------------------
(* Properties *)

Absent(x) == x = None
Empty(x) == x = None \/ x = ""

\* the first of a, b, c that is not None (c when both a and b are None)
FirstPresent(a, b, c) == IF ~Absent(a) THEN a ELSE IF ~Absent(b) THEN b ELSE c

\* the first of a, b that is neither None nor "", else c
FirstNonEmpty(a, b, c) == IF ~Empty(a) THEN a ELSE IF ~Empty(b) THEN b ELSE c

\* the exact sum of price * quantity, in eighths
RECURSIVE SumEighths(_)
SumEighths(items) ==
  IF items = <<>> THEN 0
  ELSE Head(items).price * Head(items).quantity + SumEighths(Tail(items))

\* n/8 rounded half-up to hundredths
HalfUpCents(n) == (200 * n + 8) \div 16

Abs(x) == IF x < 0 THEN -x ELSE x

LastStore == store[Len(store)]

\* C1: after any sequence of create_store calls run one after the other, no
\* two stored stores have the same lowercased slug (a create_store with a
\* case variant of a taken slug is refused).
C1_UniqueLowerSlug ==
  \A i, j \in DOMAIN store :
    i # j => Lower(store[i].slug) # Lower(store[j].slug)

\* C2: a checkout with an empty items sequence answers 400 and creates no
\* order.
C2_EmptyItemsRejected ==
  /\ \A i \in DOMAIN order : order[i].items # <<>>
  /\ \A c \in Clients :
       (req[c].pc = "done" /\ req[c].items = <<>>) => req[c].code = 400

\* C3: a checkout whose notification write raised still answers 200 with
\* status paid, and its order stays paid.
C3_SinkFailureIgnored ==
  \A c \in Clients :
    req[c].sink_failed =>
      /\ req[c].code = 200
      /\ order[req[c].order_id].status = "paid"

\* an order is pending with an empty mpesa map or paid with the gateway's
\* metadata; a checkout past its update has its order paid
C4_StatusInv ==
  /\ \A i \in DOMAIN order :
       \/ order[i].status = "pending" /\ order[i].mpesa = {}
       \/ order[i].status = "paid" /\ order[i].mpesa = {<<"status", "success">>}
  /\ \A c \in Clients :
       (req[c].pc \in {"notify", "done"} /\ req[c].order_id # 0) =>
         order[req[c].order_id].status = "paid"

\* what one step may do to the order collection
C4_Step ==
  /\ Len(order') >= Len(order)
  /\ \A i \in DOMAIN order' \ DOMAIN order :
       order'[i].status = "pending" /\ order'[i].mpesa = {}
  /\ \A i \in DOMAIN order :
       \/ order'[i] = order[i]
       \/ /\ order[i].status = "pending"
          /\ order'[i] = [order[i] EXCEPT !.status = "paid",
                                          !.mpesa = {<<"status", "success">>}]
          /\ \E c \in Clients :
               /\ req[c].pc = "update" /\ req[c].order_id = i
               /\ req'[c].pc = "notify"
          /\ \A j \in DOMAIN order : j # i => order'[j] = order[j]

\* C4: an order is inserted pending with an empty mpesa map; the only change
\* an order ever undergoes is the update of the request that inserted it,
\* which sets status paid and mpesa {status: success} together and touches no
\* other order; a checkout past its update (or completed) has its order paid.
C4_Lifecycle == [](C4_StatusInv) /\ [][C4_Step]_vars

C4_Witness ==
  /\ \E i, j \in DOMAIN order :
       order[i].status = "paid" /\ order[j].status = "pending"
  /\ \E c \in Clients : req[c].pc = "done" /\ req[c].code = 200

\* C5 as claimed: the stored total is the sum of price * quantity rounded
\* half-up to 2 decimal places.
C5_HalfUp ==
  \A i \in DOMAIN order :
    order[i].total = HalfUpCents(SumEighths(order[i].items))

\* C5 as amended: the stored total is the hundredth nearest to the sum of
\* price * quantity over all items (rounded once, on the sum), and when the
\* sum lies exactly halfway between two hundredths it is the even one.
C5_SumThenRoundHalfEven ==
  \A i \in DOMAIN order :
    LET dist == Abs(8 * order[i].total - 100 * SumEighths(order[i].items))
    IN /\ dist <= 4
       /\ dist = 4 => order[i].total % 2 = 0

\* a two-line order whose sum is a tie and whose lines, rounded one by one,
\* add up to another total
C5_Witness ==
  \E i \in DOMAIN order :
    /\ Len(order[i].items) = 2
    /\ Abs(8 * order[i].total - 100 * SumEighths(order[i].items)) = 4
    /\ order[i].total # checkout_total_lines(order[i].items)
    /\ order[i].total # HalfUpCents(SumEighths(order[i].items))

\* C6: every persisted order has total >= 0 and only items with
\* quantity >= 1 and price >= 0.
C6_OrdersNonNegative ==
  \A i \in DOMAIN order :
    /\ order[i].total >= 0
    /\ \A k \in DOMAIN order[i].items :
         order[i].items[k].quantity >= 1 /\ order[i].items[k].price >= 0

\* C7 as claimed: create_store with a well-formed owner_id that matches no
\* seller answers 404 for every slug.
C7_MissingOwner404 ==
  (/\ last.op = "create_store"
   /\ IsObjectId(last.owner_id)
   /\ ~Found(seller, last.owner_id)) => last.code = 404

\* a create_store step whose owner_id is well-formed and matches no seller
C7_MissingOwnerStep ==
  (/\ last'.op = "create_store"
   /\ IsObjectId(last'.owner_id)
   /\ ~Found(seller, last'.owner_id)) =>
     /\ store' = store
     /\ last'.code = IF \E i \in DOMAIN store : store[i].slug = last'.slug
                     THEN 400 ELSE 404

\* C7 as amended: create_store with a well-formed owner_id that matches no
\* seller leaves the store collection unchanged and answers 404, unless the
\* slug as sent equals a stored slug: then it answers 400 (the slug is
\* checked before the owner is resolved).
C7_MissingOwner == [][C7_MissingOwnerStep]_vars

C7_Witness ==
  /\ last.op = "create_store"
  /\ IsObjectId(last.owner_id) /\ ~Found(seller, last.owner_id)
  /\ last.code = 404
  /\ \E i \in DOMAIN store : store[i].slug = Lower(last.slug)

\* every persisted product is active, has price >= 0 and the slug of a store
C8_ProductInv ==
  \A k \in DOMAIN product :
    /\ product[k].is_active
    /\ product[k].price >= 0
    /\ \E i \in DOMAIN store : store[i].slug = product[k].store_slug

\* what a create_product step answers and persists
C8_Step ==
  last'.op = "create_product" =>
    LET known == \E i \in DOMAIN store : store[i].slug = Lower(last'.slug)
    IN /\ ~known => (last'.code = 404 /\ product' = product)
       /\ (known /\ last'.price >= 0) =>
            /\ last'.code = 200
            /\ product' = Append(product, [store_slug |-> Lower(last'.slug),
                                            price |-> last'.price,
                                            is_active |-> TRUE])
       /\ (known /\ last'.price < 0) => product' = product

\* C8: create_product answers 404 and persists nothing when the lowercased
\* store_slug matches no store; otherwise, with price >= 0, it persists a
\* product with is_active = true and the lowercased store_slug.  Every
\* persisted product is active, has price >= 0 and the slug of an existing
\* store.
C8_CreateProduct == [](C8_ProductInv) /\ [][C8_Step]_vars

C8_Witness ==
  /\ last.op = "create_product" /\ last.code = 200
  /\ last.slug # Lower(last.slug)
  /\ product # <<>>
  /\ product[Len(product)].store_slug = Lower(last.slug)

\* C9 as claimed: the whatsapp_number of a new store is the first value that
\* is not absent of: the supplied one, the owner's whatsapp_number, the
\* owner's phone (a supplied empty string wins).
C9_FirstPresent ==
  (last.op = "create_store" /\ last.code = 200) =>
    LastStore.whatsapp_number =
      FirstPresent(last.wa, seller[last.owner_id].whatsapp_number,
                   seller[last.owner_id].phone)

\* C9 as amended: the whatsapp_number of a new store is the supplied value
\* when that is neither absent nor the empty string, else the owner's
\* whatsapp_number when that is neither absent nor the empty string, else the
\* owner's phone.
C9_FirstNonEmpty ==
  (last.op = "create_store" /\ last.code = 200) =>
    LastStore.whatsapp_number =
      FirstNonEmpty(last.wa, seller[last.owner_id].whatsapp_number,
                    seller[last.owner_id].phone)

C9_Witness ==
  /\ last.op = "create_store" /\ last.code = 200
  /\ last.wa = ""
  /\ seller[last.owner_id].whatsapp_number = ""
  /\ LastStore.whatsapp_number = seller[last.owner_id].phone

\* the insert step of a request adds its store and answers 200
C10_InsertStep ==
  \A c \in Clients :
    (req[c].pc = "insert" /\ req'[c].pc = "done") =>
      /\ req'[c].code = 200
      /\ Len(store') = Len(store) + 1
      /\ store'[Len(store')].slug = Lower(req[c].slug)

\* C10: the insert of create_store is a step of its own that does not look at
\* the slugs again: a request that passed the uniqueness check and the owner
\* lookup adds its store and answers 200 whatever was inserted in between, so
\* two concurrent requests with the same slug both succeed.
C10_CheckThenInsert == [][C10_InsertStep]_vars

\* both requests sent the stored form of the slug, both answered 200 and the
\* collection holds the slug twice
C10_Witness ==
  /\ \A c \in Clients :
       /\ req[c].pc = "done" /\ req[c].code = 200
       /\ req[c].slug = <<"a", "1">>
  /\ Len(store) = 2
  /\ store[1].slug = <<"a", "1">> /\ store[2].slug = <<"a", "1">>

====
